---------------------------- MODULE Spec2Model ----------------------------
(***************************************************************************)
(* cargo-criterion: the build orchestrator (src/compile.rs, compile) and   *)
(* the result store (src/model.rs, Model).                                 *)
(*                                                                         *)
(* SpecCompile is one call of compile against a child build process that   *)
(* emits a stream of JSON messages and exits with some status.             *)
(*                                                                         *)
(* Spec is the result store over a data directory that outlives the        *)
(* process: Model::load, add_benchmark_id and benchmark_complete, the last *)
(* one succeeding, failing or being interrupted at any of its steps.       *)
(* SpecGroups is Spec with add_benchmark_group.  SpecLoad is Model::load   *)
(* on a data directory of any content.                                     *)
(***************************************************************************)
EXTENDS Naturals, Sequences, FiniteSets, TLC

VARIABLES
    \* ---- compile (src/compile.rs) ----
    cpc,          \* position of compile: start, stream, wait, rerun, rerun_wait, returned
    cargo,        \* the primary child: unspawned, running, reaped
    rerun,        \* the diagnostic child: unspawned, running, reaped
    spawns,       \* number of Command::spawn calls made by compile
    exit_status,  \* what cargo.wait() returned (None before)
    received,     \* the raw messages taken from the child's stdout so far
    benchmarks,   \* the local Vec<BenchTarget>
    result,       \* what compile returned (None while it runs)
    rerun_status, \* what the diagnostic child's wait() returned (None before)
    \* ---- the result store (src/model.rs) ----
    disk,             \* the data directory: directory name -> (file name -> bytes)
    groups,           \* Model.groups, an ordered map: sequence of [key, value]
    all_titles,       \* Model.all_titles
    all_directories,  \* Model.all_directories
    registered,       \* the BenchmarkIds the caller registered in this run, as
                      \* add_benchmark_id left them
    registrations,    \* number of add_benchmark_id calls made in this run
    now,              \* the second of the last clock reading
    alive,            \* whether the process holding the Model is running
    calls,            \* number of calls made on the Model, over all runs
    completions,      \* history: the identities benchmark_complete was called
                      \* for in the second `now`
    recent,           \* history of this run: the identities and the group names
                      \* registered, each in the order of its latest registration,
                      \* the identities completed, and whether a completion failed
    last              \* history: the last store operation and the state before it

compileVars ==
    <<cpc, cargo, rerun, spawns, exit_status, received, benchmarks, result, rerun_status>>

storeVars ==
    <<disk, groups, all_titles, all_directories, registered, registrations, now, alive,
      calls, completions, recent, last>>

vars == <<compileVars, storeVars>>

\* Option<T>: None is the empty sequence, Some(v) the sequence holding v.
None == <<>>

Some(v) == <<v>>

Unwrap(opt) == opt[1]

(***************************************************************************)
(* Bounds                                                                  *)
(***************************************************************************)
MaxMessages == 2

(***************************************************************************)
(* compile.rs: the message format                                          *)
(***************************************************************************)
TargetNames == {"a", "b"}

KindLists == {<<"bench">>, <<"test">>, <<"lib">>, <<"bin">>, <<"bin", "test">>}

Executables == {"x"}

\* struct Target { name, kind }
Target == [name : TargetNames, kind : KindLists]

\* The tags of enum Message (serde tag = "reason").
ArtifactTag == "compiler-artifact"

IgnoredTags == {"compiler-message", "build-script-executed", "build-finished"}

\* What the child can write on stdout: JSON objects with a reason, and text
\* that is no JSON object at all. A reason outside the four tags, or an
\* artifact without its target, does not deserialize into Message.
RawMessages ==
    [reason : {ArtifactTag}, target : {Some(t) : t \in Target} \cup {None},
     executable : {Some(e) : e \in Executables} \cup {None}]
    \cup [reason : IgnoredTags \cup {"timing-info", "not-json"}, target : {None},
          executable : {None}]

\* serde_json's deserialization of one stream item into Message.
Decode(raw) ==
    IF raw.reason = ArtifactTag
    THEN IF raw.target = None
         THEN [ok |-> FALSE]
         ELSE [ok |-> TRUE,
               message |-> [tag |-> "CompilerArtifact", target |-> Unwrap(raw.target),
                            executable |-> raw.executable]]
    ELSE IF raw.reason \in IgnoredTags
         THEN [ok |-> TRUE, message |-> [tag |-> raw.reason]]
         ELSE [ok |-> FALSE]

\* Mutant of AnyBenchKind: libraries are left out.
AnyBenchKindNoLib(kind) ==
    \E i \in 1..Len(kind) : kind[i] = "bench" \/ kind[i] = "test"

\* .any(|kind| kind == "bench" || kind == "test" || kind == "lib")
AnyBenchKind(kind) ==
    \E i \in 1..Len(kind) : kind[i] = "bench" \/ kind[i] = "test" \/ kind[i] = "lib"

\* The body of the for loop for one decoded message.
Collect(list, message) ==
    IF message.tag = "CompilerArtifact"
    THEN IF AnyBenchKind(message.target.kind)
         THEN IF message.executable # None
              THEN Append(list, [name |-> message.target.name,
                                 executable |-> Unwrap(message.executable)])
              ELSE list
         ELSE list
    ELSE list

\* ExitStatus of a child; success() is code 0.
ExitStatuses == {0, 1, 101}

Success(status) == status = 0

(***************************************************************************)
(* compile.rs: compile                                                     *)
(***************************************************************************)
CompileInit ==
    /\ cpc = "start"
    /\ cargo = "unspawned"
    /\ rerun = "unspawned"
    /\ spawns = 0
    /\ exit_status = None
    /\ received = <<>>
    /\ benchmarks = <<>>
    /\ result = None
    /\ rerun_status = None

\* Command::new("cargo")...spawn()?
SpawnPrimary ==
    /\ cpc = "start"
    /\ spawns' = spawns + 1
    /\ \/ /\ cargo' = "running"
          /\ cpc' = "stream"
          /\ result' = result
       \/ /\ cargo' = cargo
          /\ cpc' = "returned"
          /\ result' = Some([tag |-> "Err", error |-> "Io"])
    /\ UNCHANGED <<rerun, rerun_status, exit_status, received, benchmarks>>
    /\ UNCHANGED storeVars

\* Mutant of ReadMessage: a message that does not decode is skipped.
ReadMessageSkipping ==
    /\ cpc = "stream"
    /\ Len(received) < MaxMessages
    /\ \E raw \in RawMessages :
          /\ received' = Append(received, raw)
          /\ benchmarks' = IF Decode(raw).ok
                            THEN Collect(benchmarks, Decode(raw).message)
                            ELSE benchmarks
    /\ UNCHANGED <<cpc, result, cargo, rerun, rerun_status, spawns, exit_status>>
    /\ UNCHANGED storeVars

\* One iteration of `for message in stream`: message.context(..)? and the
\* classification of the decoded message.
ReadMessage ==
    /\ cpc = "stream"
    /\ Len(received) < MaxMessages
    /\ \E raw \in RawMessages :
          /\ received' = Append(received, raw)
          /\ IF Decode(raw).ok
             THEN /\ benchmarks' = Collect(benchmarks, Decode(raw).message)
                  /\ UNCHANGED <<cpc, result>>
             ELSE /\ cpc' = "returned"
                  /\ result' = Some([tag |-> "Err", error |-> "Decode"])
                  /\ benchmarks' = benchmarks
    /\ UNCHANGED <<cargo, rerun, rerun_status, spawns, exit_status>>
    /\ UNCHANGED storeVars

\* The child closed its stdout: the stream iterator ends.
EndOfStream ==
    /\ cpc = "stream"
    /\ cpc' = "wait"
    /\ UNCHANGED <<cargo, rerun, rerun_status, spawns, exit_status, received, benchmarks, result>>
    /\ UNCHANGED storeVars

\* cargo.wait().context(..)? and the test of exit_status.success()
WaitPrimary ==
    /\ cpc = "wait"
    /\ \/ /\ cpc' = "returned"
          /\ result' = Some([tag |-> "Err", error |-> "Io"])
          /\ UNCHANGED <<cargo, exit_status>>
       \/ \E status \in ExitStatuses :
             /\ cargo' = "reaped"
             /\ exit_status' = Some(status)
             /\ IF Success(status)
                THEN /\ cpc' = "returned"
                     /\ result' = Some([tag |-> "Ok", targets |-> benchmarks])
                ELSE /\ cpc' = "rerun"
                     /\ result' = result
    /\ UNCHANGED <<rerun, rerun_status, spawns, received, benchmarks>>
    /\ UNCHANGED storeVars

\* Mutant of SpawnRerun: a re-run that cannot be spawned is tried again.
SpawnRerunRetrying ==
    /\ cpc = "rerun"
    /\ spawns' = spawns + 1
    /\ \/ /\ rerun' = "running"
          /\ cpc' = "rerun_wait"
       \/ /\ rerun' = rerun
          /\ cpc' = cpc
    /\ UNCHANGED <<result, cargo, rerun_status, exit_status, received, benchmarks>>
    /\ UNCHANGED storeVars

\* The second Command::new("cargo")...spawn()?
SpawnRerun ==
    /\ cpc = "rerun"
    /\ spawns' = spawns + 1
    /\ \/ /\ rerun' = "running"
          /\ cpc' = "rerun_wait"
          /\ result' = result
       \/ /\ rerun' = rerun
          /\ cpc' = "returned"
          /\ result' = Some([tag |-> "Err", error |-> "Io"])
    /\ UNCHANGED <<cargo, rerun_status, exit_status, received, benchmarks>>
    /\ UNCHANGED storeVars

\* .wait()? of the re-run, then Err(CompileError::CompileFailed(exit_status))
WaitRerun ==
    /\ cpc = "rerun_wait"
    /\ cpc' = "returned"
    /\ \/ /\ result' = Some([tag |-> "Err", error |-> "Io"])
          /\ UNCHANGED <<rerun, rerun_status>>
       \/ \E status \in ExitStatuses :
             /\ rerun' = "reaped"
             /\ rerun_status' = Some(status)
             /\ result' = Some([tag |-> "Err", error |-> "CompileFailed",
                                status |-> Unwrap(exit_status)])
    /\ UNCHANGED <<cargo, spawns, exit_status, received, benchmarks>>
    /\ UNCHANGED storeVars

CompileNext ==
    \/ SpawnPrimary
    \/ ReadMessage
    \/ EndOfStream
    \/ WaitPrimary
    \/ SpawnRerun
    \/ WaitRerun


(***************************************************************************)
(* The result store.  Bounds of the store model.                           *)
(***************************************************************************)
\* Calls of add_benchmark_id, add_benchmark_group and benchmark_complete made
\* on the data directory, over all runs.
MaxCalls == 4

(***************************************************************************)
(* report.rs: BenchmarkId.  model.rs uses its four public fields, its      *)
(* equality and its derived directory name and title.                      *)
(***************************************************************************)
\* The text both derived names start from: the present fields joined by "/".
FullId(group_id, function_id, value_str) ==
    IF function_id # None /\ value_str # None
    THEN group_id \o "/" \o Unwrap(function_id) \o "/" \o Unwrap(value_str)
    ELSE IF function_id # None
         THEN group_id \o "/" \o Unwrap(function_id)
         ELSE IF value_str # None
              THEN group_id \o "/" \o Unwrap(value_str)
              ELSE group_id

\* BenchmarkId::new
BenchmarkIdNew(group_id, function_id, value_str, throughput) ==
    [group_id |-> group_id, function_id |-> function_id, value_str |-> value_str,
     throughput |-> throughput,
     directory_name |-> FullId(group_id, function_id, value_str),
     title |-> FullId(group_id, function_id, value_str)]

\* Equality of two BenchmarkIds: all four fields match.
SameId(a, b) ==
    /\ a.group_id = b.group_id
    /\ a.function_id = b.function_id
    /\ a.value_str = b.value_str
    /\ a.throughput = b.throughput

\* The first counter, from 2, whose suffixed name is free.
FreeCounter(name, separator, existing) ==
    CHOOSE c \in 2..(Cardinality(existing) + 2) :
        /\ (name \o separator \o ToString(c)) \notin existing
        /\ \A b \in 2..(c - 1) : (name \o separator \o ToString(b)) \in existing

\* BenchmarkId::ensure_directory_name_unique
EnsureDirectoryNameUnique(id, existing) ==
    IF id.directory_name \notin existing
    THEN id
    ELSE [id EXCEPT !.directory_name =
              @ \o "_" \o ToString(FreeCounter(id.directory_name, "_", existing))]

\* BenchmarkId::ensure_title_unique
EnsureTitleUnique(id, existing) ==
    IF id.title \notin existing
    THEN id
    ELSE [id EXCEPT !.title =
              @ \o " #" \o ToString(FreeCounter(id.title, " #", existing))]

(***************************************************************************)
(* model.rs: the persisted structs and their conversions                   *)
(***************************************************************************)
\* impl From<BenchmarkId> for SavedBenchmarkId
SavedBenchmarkId(id) ==
    [group_id |-> id.group_id, function_id |-> id.function_id,
     value_str |-> id.value_str, throughput |-> id.throughput]

\* impl From<SavedBenchmarkId> for BenchmarkId
FromSavedBenchmarkId(saved) ==
    BenchmarkIdNew(saved.group_id, saved.function_id, saved.value_str, saved.throughput)

\* Benchmark::default
DefaultBenchmark == [latest_stats |-> None, previous_stats |-> None, target |-> None]

\* BenchmarkGroup::default
DefaultGroup == [benchmarks |-> <<>>, target |-> None]

\* Mutant of AddStats: the latest statistics are replaced, not kept.
AddStatsForgetting(benchmark, stats) ==
    [benchmark EXCEPT !.latest_stats = Some(stats)]

\* Benchmark::add_stats
AddStats(benchmark, stats) ==
    [benchmark EXCEPT !.previous_stats = benchmark.latest_stats,
                      !.latest_stats = Some(stats)]

(***************************************************************************)
(* The ordered maps (LinkedHashMap) are sequences of [key, value].         *)
(***************************************************************************)
\* Position of group_id in Model.groups, 0 when absent.
GroupIndex(grps, group_id) ==
    IF \E i \in 1..Len(grps) : grps[i].key = group_id
    THEN CHOOSE i \in 1..Len(grps) : grps[i].key = group_id
    ELSE 0

\* Position of id in BenchmarkGroup.benchmarks, 0 when absent.
BenchmarkIndex(benches, id) ==
    IF \E i \in 1..Len(benches) : SameId(benches[i].key, id)
    THEN CHOOSE i \in 1..Len(benches) : SameId(benches[i].key, id)
    ELSE 0

\* LinkedHashMap::remove at a position (0: nothing to remove).
RemoveAt(map, i) ==
    IF i = 0 THEN map ELSE SubSeq(map, 1, i - 1) \o SubSeq(map, i + 1, Len(map))

\* groups.entry(group_id).or_insert_with(Default::default)
EntryGroup(grps, group_id) ==
    IF GroupIndex(grps, group_id) # 0
    THEN grps
    ELSE Append(grps, [key |-> group_id, value |-> DefaultGroup])

\* benchmarks.entry(id).or_insert_with(Default::default)
EntryBenchmark(benches, id) ==
    IF BenchmarkIndex(benches, id) # 0
    THEN benches
    ELSE Append(benches, [key |-> id, value |-> DefaultBenchmark])

\* groups.get(&id.group_id).and_then(|g| g.benchmarks.get(id))
GetBenchmark(grps, id) ==
    LET gi == GroupIndex(grps, id.group_id) IN
    IF gi = 0
    THEN None
    ELSE LET benches == grps[gi].value.benchmarks
             bi == BenchmarkIndex(benches, id)
         IN IF bi = 0 THEN None ELSE Some(benches[bi].value)

\* Model::get_last_sample
GetLastSample(grps, id) ==
    IF GetBenchmark(grps, id) = None
    THEN None
    ELSE Unwrap(GetBenchmark(grps, id)).latest_stats

(***************************************************************************)
(* The data directory.  disk maps a directory name to its files, a file    *)
(* name to its bytes: <<>> is an empty or cut-short file, which does not   *)
(* decode, <<v>> the complete encoding of v.                               *)
(***************************************************************************)
BenchmarkFile == "benchmark.cbor"

\* chrono::Local::now().format("measurement_%y%m%d%H%M%S.cbor"): the name
\* keeps the second of the clock reading and nothing finer.
MeasurementName(second) == "measurement_" \o ToString(second) \o ".cbor"

\* The SavedStatistics benchmark_complete builds.  Utc::now() is finer than
\* a second: the instant is the second and the rank of the clock reading
\* among the readings made so far.
SavedStatistics(second, reading, data) ==
    [datetime |-> <<second, reading>>, measurement |-> data]

\* serde_cbor::from_reader
DecodeFile(bytes) ==
    IF bytes = <<>> THEN [ok |-> FALSE] ELSE [ok |-> TRUE, value |-> bytes[1]]

\* File::create: the file exists and is empty afterwards.
CreateFile(dsk, dir, name) == [dsk EXCEPT ![dir] = (name :> <<>>) @@ @]

\* serde_cbor::to_writer into a created file.
WriteFile(dsk, dir, name, value) == [dsk EXCEPT ![dir] = (name :> <<value>>) @@ @]

\* std::fs::create_dir_all
CreateDirAll(dsk, dir) == IF dir \in DOMAIN dsk THEN dsk ELSE (dir :> <<>>) @@ dsk

(***************************************************************************)
(* model.rs: Model::load                                                   *)
(***************************************************************************)
\* The statistics load_stored_benchmark reads through the record file of
\* one directory: None when a file is missing or does not decode.
StoredBenchmark(dsk, dir) ==
    LET files == dsk[dir] IN
    IF BenchmarkFile \notin DOMAIN files
    THEN None
    ELSE IF ~DecodeFile(files[BenchmarkFile]).ok
         THEN None
         ELSE LET benchmark_record == DecodeFile(files[BenchmarkFile]).value
                  measurement_path == benchmark_record.latest_record
              IN IF measurement_path \notin DOMAIN files
                 THEN None
                 ELSE IF ~DecodeFile(files[measurement_path]).ok
                      THEN None
                      ELSE Some([id |-> benchmark_record.id,
                                 saved_stats |-> DecodeFile(files[measurement_path]).value])

\* The insertion at the end of load_stored_benchmark.
InsertLoaded(grps, saved_id, saved_stats) ==
    LET id == FromSavedBenchmarkId(saved_id)
        grps1 == EntryGroup(grps, saved_id.group_id)
        gi == GroupIndex(grps1, saved_id.group_id)
        benches == EntryBenchmark(grps1[gi].value.benchmarks, id)
        bi == BenchmarkIndex(benches, id)
    IN [grps1 EXCEPT ![gi].value.benchmarks =
            [benches EXCEPT ![bi].value.latest_stats = Some(saved_stats)]]

\* Model::load_stored_benchmark on the record file of one directory.
LoadStoredBenchmark(grps, dsk, dir) ==
    IF StoredBenchmark(dsk, dir) = None
    THEN grps
    ELSE InsertLoaded(grps, Unwrap(StoredBenchmark(dsk, dir)).id,
                      Unwrap(StoredBenchmark(dsk, dir)).saved_stats)

\* The orders in which WalkDir can yield the directories: it does not sort.
WalkOrders(dsk) ==
    {order \in [1..Cardinality(DOMAIN dsk) -> DOMAIN dsk] :
        \A i, j \in 1..Cardinality(DOMAIN dsk) : i # j => order[i] # order[j]}

\* Mutant of LoadWalk: the first record that cannot be used ends the walk.
RECURSIVE LoadWalkAborting(_, _, _)
LoadWalkAborting(grps, dsk, order) ==
    IF order = <<>>
    THEN grps
    ELSE IF StoredBenchmark(dsk, Head(order)) = None
         THEN grps
         ELSE LoadWalkAborting(LoadStoredBenchmark(grps, dsk, Head(order)), dsk,
                               Tail(order))

\* The for loop of Model::load over one walk.
RECURSIVE LoadWalk(_, _, _)
LoadWalk(grps, dsk, order) ==
    IF order = <<>>
    THEN grps
    ELSE LoadWalk(LoadStoredBenchmark(grps, dsk, Head(order)), dsk, Tail(order))

\* Every index Model::load can build from a data directory.
LoadOutcomes(dsk) == {LoadWalk(<<>>, dsk, order) : order \in WalkOrders(dsk)}

(***************************************************************************)
(* model.rs: Model::add_benchmark_id and Model::add_benchmark_group        *)
(***************************************************************************)
\* Mutant of InsertDirectory: the name is not recorded.
InsertDirectoryDropped(directories, id) == directories

\* self.all_directories.insert(id.as_directory_name().to_owned())
InsertDirectory(directories, id) == directories \cup {id.directory_name}

\* self.all_titles.insert(id.as_title().to_owned())
InsertTitle(titles, id) == titles \cup {id.title}

\* Mutant of Attribute: a duplicate takes the attribution over.
AttributeOverwriting(benchmark, target) ==
    [benchmark |-> [benchmark EXCEPT !.target = Some(target)],
     warnings |-> IF benchmark.target # None THEN 1 ELSE 0]

\* The if let on benchmark.target: the warning, or the first attribution.
Attribute(benchmark, target) ==
    IF benchmark.target # None
    THEN [benchmark |-> benchmark, warnings |-> 1]
    ELSE [benchmark |-> [benchmark EXCEPT !.target = Some(target)], warnings |-> 0]

\* Mutant of RegisterInGroups: the benchmark inserted is a new one.
RegisterInGroupsDefaulting(grps, target, id) ==
    LET grps1 == EntryGroup(grps, id.group_id)
        gi == GroupIndex(grps1, id.group_id)
        benches == grps1[gi].value.benchmarks
        bi == BenchmarkIndex(benches, id)
        attributed == Attribute(DefaultBenchmark, target)
    IN [groups |-> [grps1 EXCEPT ![gi].value.benchmarks =
                        Append(RemoveAt(benches, bi),
                               [key |-> id, value |-> attributed.benchmark])],
        warnings |-> attributed.warnings]

\* Mutant of RegisterInGroups: a benchmark the group holds keeps its place.
RegisterInGroupsInPlace(grps, target, id) ==
    LET grps1 == EntryGroup(grps, id.group_id)
        gi == GroupIndex(grps1, id.group_id)
        benches == grps1[gi].value.benchmarks
        bi == BenchmarkIndex(benches, id)
        benchmark == IF bi = 0 THEN DefaultBenchmark ELSE benches[bi].value
        attributed == Attribute(benchmark, target)
    IN [groups |-> [grps1 EXCEPT ![gi].value.benchmarks =
                        IF bi = 0
                        THEN Append(benches, [key |-> id, value |-> attributed.benchmark])
                        ELSE [benches EXCEPT ![bi] =
                                  [key |-> id, value |-> attributed.benchmark]]],
        warnings |-> attributed.warnings]

\* The groups part of add_benchmark_id: find or create the group, remove the
\* benchmark, attribute it, and insert it again at the end.
RegisterInGroups(grps, target, id) ==
    LET grps1 == EntryGroup(grps, id.group_id)
        gi == GroupIndex(grps1, id.group_id)
        benches == grps1[gi].value.benchmarks
        bi == BenchmarkIndex(benches, id)
        benchmark == IF bi = 0 THEN DefaultBenchmark ELSE benches[bi].value
        attributed == Attribute(benchmark, target)
    IN [groups |-> [grps1 EXCEPT ![gi].value.benchmarks =
                        Append(RemoveAt(benches, bi),
                               [key |-> id, value |-> attributed.benchmark])],
        warnings |-> attributed.warnings]

\* Model::check_benchmark_group: the number of warnings it emits.  It takes
\* &self and changes nothing.
CheckBenchmarkGroup(grps, current_target, group) ==
    LET gi == GroupIndex(grps, group) IN
    IF gi = 0
    THEN 0
    ELSE IF grps[gi].value.target = None
         THEN 0
         ELSE IF Unwrap(grps[gi].value.target) # current_target THEN 1 ELSE 0

\* Mutant of RegisterGroup: the group is inserted anew, without what the
\* removed one held.
RegisterGroupFresh(grps, target, group_name) ==
    Append(RemoveAt(grps, GroupIndex(grps, group_name)),
           [key |-> group_name, value |-> [DefaultGroup EXCEPT !.target = Some(target)]])

\* Model::add_benchmark_group
RegisterGroup(grps, target, group_name) ==
    LET gi == GroupIndex(grps, group_name)
        group == IF gi = 0 THEN DefaultGroup ELSE grps[gi].value
    IN Append(RemoveAt(grps, gi),
              [key |-> group_name, value |-> [group EXCEPT !.target = Some(target)]])

(***************************************************************************)
(* model.rs: Model::benchmark_complete                                     *)
(***************************************************************************)
\* Mutant of Steps: the record file is written before the measurement file.
StepsRecordFirst ==
    <<"create_dir_all", "create_benchmark", "write_benchmark",
      "create_measurement", "write_measurement">>

\* Mutant of Steps: both files are created before either is written.
StepsCreateBoth ==
    <<"create_dir_all", "create_measurement", "create_benchmark",
      "write_measurement", "write_benchmark">>

\* The five fallible file operations, in the order the function makes them.
Steps ==
    <<"create_dir_all", "create_measurement", "write_measurement",
      "create_benchmark", "write_benchmark">>

\* The data directory after one of the operations succeeded.
StepEffect(dsk, step, dir, measurement_name, saved_stats, record) ==
    CASE step = "create_dir_all" -> CreateDirAll(dsk, dir)
      [] step = "create_measurement" -> CreateFile(dsk, dir, measurement_name)
      [] step = "write_measurement" -> WriteFile(dsk, dir, measurement_name, saved_stats)
      [] step = "create_benchmark" -> CreateFile(dsk, dir, BenchmarkFile)
      [] step = "write_benchmark" -> WriteFile(dsk, dir, BenchmarkFile, record)

\* The data directory after the first n operations succeeded.  An operation
\* that fails leaves the directory as the one before it left it: a failed
\* create changes nothing, a failed write leaves the created file cut short.
RECURSIVE DiskAfter(_, _, _, _, _, _)
DiskAfter(dsk, n, dir, measurement_name, saved_stats, record) ==
    IF n = 0
    THEN dsk
    ELSE StepEffect(DiskAfter(dsk, n - 1, dir, measurement_name, saved_stats, record),
                    Steps[n], dir, measurement_name, saved_stats, record)

\* The in-memory update that ends benchmark_complete.
CompleteInMemory(grps, id, saved_stats) ==
    LET gi == GroupIndex(grps, id.group_id)
        bi == BenchmarkIndex(grps[gi].value.benchmarks, id)
    IN [grps EXCEPT ![gi].value.benchmarks[bi].value = AddStats(@, saved_stats)]

(***************************************************************************)
(* The inputs of the store model                                           *)
(***************************************************************************)
\* Two identities that derive the same directory name and the same title.
Identities ==
    {[group_id |-> "g", function_id |-> Some("f"), value_str |-> None, throughput |-> None],
     [group_id |-> "g", function_id |-> None, value_str |-> Some("f"), throughput |-> None]}

Targets == {"t1", "t2"}

GroupNames == {"g", "h"}

\* Stands for the MeasurementData handed to benchmark_complete.
MeasurementData == {"m1", "m2"}

\* Data directories as Model::load can find them, left by earlier runs or
\* by anything else: up to two directories, each with a record file that is
\* absent, cut short or complete, and a measurement file likewise.
DirectoryNames == {"g/f", "g/f_2"}

RecordFiles ==
    {<<>>} \cup {<<[id |-> identity, latest_record |-> MeasurementName(0)]>> :
                    identity \in Identities}

MeasurementFiles ==
    {<<>>} \cup {<<SavedStatistics(0, 0, data)>> : data \in MeasurementData}

\* A file system entry that is there or not.
EntryOf(name, opt) == IF opt = None THEN <<>> ELSE (name :> Unwrap(opt))

DirectoryContents ==
    {EntryOf(BenchmarkFile, b) @@ EntryOf(MeasurementName(0), m) :
        b \in {None} \cup {Some(x) : x \in RecordFiles},
        m \in {None} \cup {Some(x) : x \in MeasurementFiles}}

DataDirectories ==
    {EntryOf("g/f", c1) @@ EntryOf("g/f_2", c2) :
        c1 \in {None} \cup {Some(c) : c \in DirectoryContents},
        c2 \in {None} \cup {Some(c) : c \in DirectoryContents}}

\* A sequence of keys with one key moved to (or put at) its end.
MoveToEnd(seq, key) == Append(SelectSeq(seq, LAMBDA k : k # key), key)

NoRegistration == [benchmarks |-> <<>>, groups |-> <<>>, completed |-> {}, failed |-> FALSE]

NoOperation ==
    [op |-> "none", id |-> None, target |-> None, ending |-> "none", steps |-> 0,
     measurement_name |-> None, saved_stats |-> None, warnings |-> 0,
     repeated |-> FALSE, pre_disk |-> <<>>, pre_groups |-> <<>>]

(***************************************************************************)
(* The store's operations                                                  *)
(***************************************************************************)
StoreInit ==
    /\ disk = <<>>
    /\ groups = <<>>
    /\ all_titles = {}
    /\ all_directories = {}
    /\ registered = {}
    /\ registrations = 0
    /\ now = 0
    /\ alive = TRUE
    /\ calls = 0
    /\ completions = {}
    /\ recent = NoRegistration
    /\ last = NoOperation

\* A new run starts (the previous one ended or was interrupted): Model::load.
\* It is the first operation on a data directory, or follows a
\* benchmark_complete call: a run that made none is not followed by a new
\* one, which would start from the same files.
Load ==
    /\ last.op \in {"none", "benchmark_complete"}
    /\ alive' = TRUE
    /\ all_titles' = {}
    /\ all_directories' = {}
    /\ registered' = {}
    /\ registrations' = 0
    /\ \E order \in WalkOrders(disk) : groups' = LoadWalk(<<>>, disk, order)
    /\ last' = [NoOperation EXCEPT !.op = "load", !.pre_disk = disk]
    /\ recent' = NoRegistration
    /\ UNCHANGED <<disk, now, calls, completions>>
    /\ UNCHANGED compileVars

\* Model::add_benchmark_id(target, id) on a BenchmarkId the caller just built.
AddBenchmarkId ==
    /\ alive
    /\ calls < MaxCalls
    /\ calls' = calls + 1
    /\ registrations' = registrations + 1
    /\ \E target \in Targets, identity \in Identities :
          LET fresh == FromSavedBenchmarkId(identity)
              id1 == EnsureDirectoryNameUnique(fresh, all_directories)
              directories == InsertDirectory(all_directories, id1)
              id == EnsureTitleUnique(id1, all_titles)
              titles == InsertTitle(all_titles, id)
              after == RegisterInGroups(groups, target, id)
          IN /\ all_directories' = directories
             /\ all_titles' = titles
             /\ groups' = after.groups
             /\ registered' = registered \cup {id}
             /\ recent' = [recent EXCEPT
                               !.benchmarks = MoveToEnd(@, SavedBenchmarkId(id))]
             /\ last' = [NoOperation EXCEPT !.op = "add_benchmark_id", !.id = Some(id),
                                            !.target = Some(target),
                                            !.warnings = after.warnings,
                                            !.pre_disk = disk, !.pre_groups = groups]
    /\ UNCHANGED <<disk, now, alive, completions>>
    /\ UNCHANGED compileVars

\* Model::add_benchmark_group(target, group_name)
AddBenchmarkGroup ==
    /\ alive
    /\ calls < MaxCalls
    /\ calls' = calls + 1
    /\ \E target \in Targets, group_name \in GroupNames :
          /\ groups' = RegisterGroup(groups, target, group_name)
          /\ recent' = [recent EXCEPT !.groups = MoveToEnd(@, group_name)]
          /\ last' = [NoOperation EXCEPT !.op = "add_benchmark_group",
                                         !.target = Some(target),
                                         !.pre_disk = disk, !.pre_groups = groups]
    /\ UNCHANGED <<disk, all_titles, all_directories, registered, registrations, now,
                   alive, completions>>
    /\ UNCHANGED compileVars

\* Mutant of BenchmarkComplete: the statistics are added to the entry before
\* the files are written, so also when a write fails.
BenchmarkCompleteEager ==
    /\ alive
    /\ calls < MaxCalls
    /\ calls' = calls + 1
    /\ \E id \in registered, time \in {now, now + 1}, data \in MeasurementData,
          ending \in {"ok", "error", "crash"}, steps \in 0..Len(Steps) :
          /\ ending = "ok" => steps = Len(Steps)
          /\ ending = "error" => steps < Len(Steps)
          /\ ending = "crash" => steps > 0
          /\ now' = time
          /\ completions' = (IF time = now THEN completions ELSE {})
                                 \cup {SavedBenchmarkId(id)}
          /\ LET dir == id.directory_name
                 measurement_name == MeasurementName(time)
                 saved_stats == SavedStatistics(time, calls, data)
                 record == [id |-> SavedBenchmarkId(id),
                            latest_record |-> measurement_name]
             IN /\ disk' = DiskAfter(disk, steps, dir, measurement_name, saved_stats, record)
                /\ groups' = CASE ending = "ok" -> CompleteInMemory(groups, id, saved_stats)
                               [] ending = "error" ->
                                     CompleteInMemory(groups, id, saved_stats)
                               [] ending = "crash" -> <<>>
                /\ last' = [NoOperation EXCEPT !.op = "benchmark_complete",
                                               !.id = Some(id), !.ending = ending,
                                               !.steps = steps,
                                               !.measurement_name = Some(measurement_name),
                                               !.saved_stats = Some(saved_stats),
                                               !.repeated = (time = now /\
                                                   SavedBenchmarkId(id) \in completions),
                                               !.pre_disk = disk, !.pre_groups = groups]
          /\ alive' = (ending # "crash")
          /\ all_titles' = IF ending = "crash" THEN {} ELSE all_titles
          /\ all_directories' = IF ending = "crash" THEN {} ELSE all_directories
          /\ registered' = IF ending = "crash" THEN {} ELSE registered
          /\ registrations' = IF ending = "crash" THEN 0 ELSE registrations
          /\ recent' = CASE ending = "crash" -> NoRegistration
                          [] ending = "error" -> [recent EXCEPT !.failed = TRUE]
                          [] ending = "ok" ->
                                [recent EXCEPT !.completed = @ \cup {SavedBenchmarkId(id)}]
    /\ UNCHANGED compileVars

\* Model::benchmark_complete(id, analysis_results) for a registered id.  It
\* returns Ok after all five operations, returns Err when operation
\* steps + 1 fails, or the process is interrupted after `steps` operations.
BenchmarkComplete ==
    /\ alive
    /\ calls < MaxCalls
    /\ calls' = calls + 1
    /\ \E id \in registered, time \in {now, now + 1}, data \in MeasurementData,
          ending \in {"ok", "error", "crash"}, steps \in 0..Len(Steps) :
          /\ ending = "ok" => steps = Len(Steps)
          /\ ending = "error" => steps < Len(Steps)
          /\ ending = "crash" => steps > 0
          /\ now' = time
          /\ completions' = (IF time = now THEN completions ELSE {})
                                 \cup {SavedBenchmarkId(id)}
          /\ LET dir == id.directory_name
                 measurement_name == MeasurementName(time)
                 saved_stats == SavedStatistics(time, calls, data)
                 record == [id |-> SavedBenchmarkId(id),
                            latest_record |-> measurement_name]
             IN /\ disk' = DiskAfter(disk, steps, dir, measurement_name, saved_stats, record)
                /\ groups' = CASE ending = "ok" -> CompleteInMemory(groups, id, saved_stats)
                               [] ending = "error" -> groups
                               [] ending = "crash" -> <<>>
                /\ last' = [NoOperation EXCEPT !.op = "benchmark_complete",
                                               !.id = Some(id), !.ending = ending,
                                               !.steps = steps,
                                               !.measurement_name = Some(measurement_name),
                                               !.saved_stats = Some(saved_stats),
                                               !.repeated = (time = now /\
                                                   SavedBenchmarkId(id) \in completions),
                                               !.pre_disk = disk, !.pre_groups = groups]
          /\ alive' = (ending # "crash")
          /\ all_titles' = IF ending = "crash" THEN {} ELSE all_titles
          /\ all_directories' = IF ending = "crash" THEN {} ELSE all_directories
          /\ registered' = IF ending = "crash" THEN {} ELSE registered
          /\ registrations' = IF ending = "crash" THEN 0 ELSE registrations
          /\ recent' = CASE ending = "crash" -> NoRegistration
                          [] ending = "error" -> [recent EXCEPT !.failed = TRUE]
                          [] ending = "ok" ->
                                [recent EXCEPT !.completed = @ \cup {SavedBenchmarkId(id)}]
    /\ UNCHANGED compileVars

StoreNext ==
    \/ Load
    \/ AddBenchmarkId
    \/ BenchmarkComplete

GroupsNext ==
    \/ StoreNext
    \/ AddBenchmarkGroup

Init == CompileInit /\ StoreInit

SpecCompile == Init /\ [][CompileNext]_vars

\* Registration and persistence over several runs on one data directory.
Spec == Init /\ [][StoreNext]_vars

\* The same with add_benchmark_group.
SpecGroups == Init /\ [][GroupsNext]_vars

\* Model::load on any data directory.
LoadInit ==
    /\ CompileInit
    /\ disk \in DataDirectories
    /\ groups = <<>>
    /\ all_titles = {}
    /\ all_directories = {}
    /\ registered = {}
    /\ registrations = 0
    /\ now = 0
    /\ alive = TRUE
    /\ calls = 0
    /\ completions = {}
    /\ recent = NoRegistration
    /\ last = NoOperation

SpecLoad == LoadInit /\ [][Load]_vars

(***************************************************************************)
(* Properties of compile                                                   *)
(***************************************************************************)
Returned == cpc = "returned"

DecodeError == Some([tag |-> "Err", error |-> "Decode"])

\* The messages of a stream that yield a BenchTarget, in order: the
\* compiler-artifact messages whose kinds meet {bench, test, lib} and that
\* carry an executable.
RECURSIVE ExpectedTargets(_)
ExpectedTargets(stream) ==
    IF stream = <<>>
    THEN <<>>
    ELSE LET raw == Head(stream)
             listed == /\ raw.reason = "compiler-artifact"
                       /\ raw.target # None
                       /\ raw.executable # None
                       /\ {raw.target[1].kind[i] : i \in 1..Len(raw.target[1].kind)}
                              \cap {"bench", "test", "lib"} # {}
         IN (IF listed
             THEN <<[name |-> raw.target[1].name, executable |-> raw.executable[1]]>>
             ELSE <<>>) \o ExpectedTargets(Tail(stream))

\* C7: compile starts the build command once when the primary build exits
\* successfully, when a message fails to decode or when the primary spawn
\* fails, twice when the primary build exits with failure, never more than
\* twice, and the re-run only after the primary process has exited.
C7_InvocationCount ==
    /\ spawns <= 2
    /\ (Returned /\ exit_status # None /\ exit_status[1] = 0) => spawns = 1
    /\ (Returned /\ result = DecodeError) => spawns = 1
    /\ (Returned /\ cargo = "unspawned") => spawns = 1
    /\ (Returned /\ exit_status # None /\ exit_status[1] # 0) => spawns = 2
    /\ (spawns = 2 \/ rerun # "unspawned") =>
           (cargo = "reaped" /\ exit_status # None /\ exit_status[1] # 0)

\* C7 witness: the primary build failed and the re-run was started and waited for.
C7_Witness ==
    /\ Returned
    /\ exit_status = Some(101)
    /\ rerun = "reaped"
    /\ spawns = 2

\* C8 as claimed: whenever the primary build exits with a failure status,
\* compile returns CompileFailed with that status, whatever happens to the
\* diagnostic re-run.
C8_FailureReturnsCompileFailed ==
    (Returned /\ exit_status # None /\ exit_status[1] # 0) =>
        result = Some([tag |-> "Err", error |-> "CompileFailed",
                       status |-> exit_status[1]])

\* C9: when the primary build exits successfully, the returned list is the
\* subsequence, in arrival order and with duplicates, of the artifacts of
\* kind bench, test or lib that carry an executable.
C9_ArtifactClassification ==
    (Returned /\ result # None /\ result[1].tag = "Ok") =>
        result[1].targets = ExpectedTargets(received)

\* C9 witness: a bin artifact with an executable was passed over and the
\* lib artifact after it was listed.
C9_Witness ==
    /\ Returned
    /\ result = Some([tag |-> "Ok", targets |-> <<[name |-> "b", executable |-> "x"]>>])
    /\ Len(received) = 2
    /\ received[1] = [reason |-> "compiler-artifact",
                      target |-> Some([name |-> "a", kind |-> <<"bin">>]),
                      executable |-> Some("x")]
    /\ received[2] = [reason |-> "compiler-artifact",
                      target |-> Some([name |-> "b", kind |-> <<"lib">>]),
                      executable |-> Some("x")]

\* C10: a message that fails to decode ends compile at that message with a
\* decode error, which carries no targets; nothing is read after it, the
\* primary process is not waited for and no re-run is made.
C10_DecodeFailFast ==
    /\ \A i \in 1..Len(received) :
           ~Decode(received[i]).ok =>
               /\ i = Len(received)
               /\ Returned
               /\ result = DecodeError
    /\ result = DecodeError =>
           /\ Len(received) > 0
           /\ ~Decode(received[Len(received)]).ok
           /\ "targets" \notin DOMAIN result[1]
           /\ result[1].error # "CompileFailed"
           /\ exit_status = None
           /\ rerun = "unspawned"
           /\ spawns = 1

\* C10 witness: the second message did not decode, after a first that had
\* yielded a target.
C10_Witness ==
    /\ result = DecodeError
    /\ Len(received) = 2
    /\ benchmarks # <<>>

(***************************************************************************)
(* Properties of the result store                                          *)
(***************************************************************************)
LastComplete == last.op = "benchmark_complete"

LastDir == last.id[1].directory_name

\* The operations of the last benchmark_complete call that succeeded.
DoneSteps == {Steps[i] : i \in 1..last.steps}

\* The record file of the last call's directory was valid before the call:
\* it decoded and named a measurement file that decoded.
HadRecord ==
    /\ LastDir \in DOMAIN last.pre_disk
    /\ StoredBenchmark(last.pre_disk, LastDir) # None

\* The name the valid record file held before the last call.
OldMeasurementName == last.pre_disk[LastDir][BenchmarkFile][1].latest_record

\* The last call was interrupted right after it wrote the measurement file.
InterruptedAfterMeasurement ==
    /\ LastComplete
    /\ last.ending = "crash"
    /\ Steps[last.steps] = "write_measurement"

\* What a load reads through every record file is what it read before the
\* last call, and so is every index a load can build.
LoadsAsBefore ==
    /\ \A dir \in DOMAIN last.pre_disk :
           StoredBenchmark(disk, dir) = StoredBenchmark(last.pre_disk, dir)
    /\ LoadOutcomes(disk) = LoadOutcomes(last.pre_disk)

\* C1 as claimed: if benchmark_complete is interrupted after the new
\* measurement file is written and before benchmark.cbor is rewritten, a
\* load resolves the record file to the old measurement, whose contents and
\* the record file are unchanged.
C1_Original ==
    (InterruptedAfterMeasurement /\ HadRecord) =>
        /\ disk[LastDir][BenchmarkFile] = last.pre_disk[LastDir][BenchmarkFile]
        /\ LoadsAsBefore

\* C1 amended: the same, provided the new measurement file name differs
\* from the name the record file holds (the two completions fall in
\* different seconds).
C1_CrashSafety ==
    (InterruptedAfterMeasurement /\ HadRecord
        /\ last.measurement_name # Some(OldMeasurementName)) =>
        /\ disk[LastDir][BenchmarkFile] = last.pre_disk[LastDir][BenchmarkFile]
        /\ disk[LastDir][last.measurement_name[1]] = <<last.saved_stats[1]>>
        /\ LoadsAsBefore

\* C1 witness: an interrupted call has left a new measurement file beside a
\* valid record file that names another.
C1_Witness ==
    /\ InterruptedAfterMeasurement
    /\ HadRecord
    /\ last.measurement_name # Some(OldMeasurementName)

\* C2 as claimed, for calls whose measurement file name is new: after
\* benchmark_complete returned an error, a load reads through every record
\* file what it read before the call.
C2_FailureKeepsData ==
    (LastComplete /\ last.ending = "error"
        /\ (HadRecord => last.measurement_name # Some(OldMeasurementName))) =>
        LoadsAsBefore

\* C3: every record file that decodes names a measurement file that exists
\* in its directory.
C3_NoDanglingRecord ==
    \A dir \in DOMAIN disk :
        (BenchmarkFile \in DOMAIN disk[dir] /\ DecodeFile(disk[dir][BenchmarkFile]).ok) =>
            DecodeFile(disk[dir][BenchmarkFile]).value.latest_record \in DOMAIN disk[dir]

\* C3 witness: a call failed before its measurement file was written, in a
\* directory whose record file decodes.
C3_Witness ==
    /\ LastComplete
    /\ last.ending = "error"
    /\ "write_measurement" \notin DoneSteps
    /\ LastDir \in DOMAIN disk
    /\ BenchmarkFile \in DOMAIN disk[LastDir]
    /\ DecodeFile(disk[LastDir][BenchmarkFile]).ok

\* C4: after a successful benchmark_complete, get_last_sample returns the
\* snapshot just written and previous_stats is what latest_stats held
\* before the call.
C4_DepthOneHistory ==
    (LastComplete /\ last.ending = "ok") =>
        /\ GetLastSample(groups, last.id[1]) = last.saved_stats
        /\ GetBenchmark(groups, last.id[1])[1].previous_stats
               = GetLastSample(last.pre_groups, last.id[1])

\* C4 witness: a successful write over earlier statistics.
C4_Witness ==
    /\ LastComplete
    /\ last.ending = "ok"
    /\ GetBenchmark(groups, last.id[1])[1].previous_stats # None

\* C5: the directory names of the registrations of a run are pairwise
\* distinct and so are their titles: each registration adds a name that
\* all_directories and all_titles did not hold.
C5_UniqueNames ==
    /\ Cardinality({id.directory_name : id \in registered}) = registrations
    /\ Cardinality({id.title : id \in registered}) = registrations
    /\ all_directories = {id.directory_name : id \in registered}
    /\ all_titles = {id.title : id \in registered}

\* C5 witness: two different identities that derive the same names are
\* both registered.
C5_Witness ==
    \E a, b \in registered :
        /\ ~SameId(a, b)
        /\ FullId(a.group_id, a.function_id, a.value_str)
               = FullId(b.group_id, b.function_id, b.value_str)

\* The entry of the identity of the last registration, before it.
EntryBefore == GetBenchmark(last.pre_groups, last.id[1])

ValidDirs(dsk) == {dir \in DOMAIN dsk : StoredBenchmark(dsk, dir) # None}

\* The identities an index holds.
IndexIds(grps) ==
    UNION {{grps[gi].value.benchmarks[bi].key :
                bi \in 1..Len(grps[gi].value.benchmarks)} : gi \in 1..Len(grps)}

\* No entry of the index stands for an unusable record: every benchmark is
\* the identity of a valid record, and every group holds a benchmark.
OnlyValidEntries ==
    /\ \A id \in IndexIds(groups) :
           \E dir \in ValidDirs(disk) :
               SameId(id, Unwrap(StoredBenchmark(disk, dir)).id)
    /\ \A gi \in 1..Len(groups) : groups[gi].value.benchmarks # <<>>

IndexView(grps) ==
    [groups |-> {grps[gi].key : gi \in 1..Len(grps)},
     stats |-> {[id |-> SavedBenchmarkId(id), latest_stats |-> GetLastSample(grps, id)] :
                   id \in IndexIds(grps)}]

\* C12 as claimed: every load of the data directory as it stands builds the
\* same groups, identities and latest_stats, whatever order the walk takes.
C12_ReloadAgrees ==
    Cardinality({IndexView(grps) : grps \in LoadOutcomes(disk)}) = 1

(***************************************************************************)
(* Properties of the files benchmark_complete writes                       *)
(***************************************************************************)
\* Every file but the record files is as it was before the last call.
MeasurementsKept ==
    \A dir \in DOMAIN last.pre_disk :
        \A name \in DOMAIN last.pre_disk[dir] \ {BenchmarkFile} :
            /\ dir \in DOMAIN disk
            /\ name \in DOMAIN disk[dir]
            /\ disk[dir][name] = last.pre_disk[dir][name]

\* The measurement file name of the last call was unused in its directory.
NewMeasurementName ==
    LastDir \in DOMAIN last.pre_disk =>
        last.measurement_name[1] \notin DOMAIN last.pre_disk[LastDir]

\* C13 as claimed: when the identity of a benchmark_complete call had no
\* other completion in the same second, the call writes to a measurement
\* file name unused in its directory, and every measurement file that
\* existed is kept as it was.
C13_AppendOnly ==
    (LastComplete /\ ~last.repeated) =>
        /\ NewMeasurementName
        /\ MeasurementsKept

\* C18 as claimed: benchmark_complete replaces a record file that decodes
\* only if the file records the identity being completed.
C18_OwnRecordOnly ==
    (LastComplete /\ "create_benchmark" \in DoneSteps
        /\ LastDir \in DOMAIN last.pre_disk
        /\ BenchmarkFile \in DOMAIN last.pre_disk[LastDir]
        /\ DecodeFile(last.pre_disk[LastDir][BenchmarkFile]).ok) =>
        DecodeFile(last.pre_disk[LastDir][BenchmarkFile]).value.id
            = SavedBenchmarkId(last.id[1])

(***************************************************************************)
(* Properties of the index during a run                                    *)
(***************************************************************************)
\* The last operation was a call on the Model that returned.
LastReturned ==
    /\ last.op \in {"add_benchmark_id", "add_benchmark_group", "benchmark_complete"}
    /\ alive

\* The keys of an ordered map, in order.
Keys(map) == [i \in 1..Len(map) |-> map[i].key]

\* The four-field identities of the benchmarks of a group, in order.
BenchmarkKeys(group) ==
    [i \in 1..Len(group.benchmarks) |-> SavedBenchmarkId(group.benchmarks[i].key)]

Range(seq) == {seq[i] : i \in 1..Len(seq)}

\* C14: every group the index held before a call it holds after it, with
\* every benchmark the group held.
C14_EntriesKept ==
    LastReturned =>
        \A gi \in 1..Len(last.pre_groups) :
            LET key == last.pre_groups[gi].key
                now_gi == GroupIndex(groups, key)
            IN /\ now_gi # 0
               /\ Range(BenchmarkKeys(last.pre_groups[gi].value))
                      \subseteq Range(BenchmarkKeys(groups[now_gi].value))

\* C14 witness: add_benchmark_group removed and inserted again a group that
\* held a benchmark and was not the last one.
C14_Witness ==
    /\ last.op = "add_benchmark_group"
    /\ \E gi \in 1..Len(last.pre_groups) :
           /\ last.pre_groups[gi].key = groups[Len(groups)].key
           /\ last.pre_groups[gi].value.benchmarks # <<>>
           /\ gi < Len(last.pre_groups)

\* The benchmark identities of the group of that name, in order; none when
\* the index has no such group.
BenchmarkKeysOf(grps, group_id) ==
    IF GroupIndex(grps, group_id) = 0
    THEN <<>>
    ELSE BenchmarkKeys(grps[GroupIndex(grps, group_id)].value)

C16_RegistrationKeepsHistory ==
    last.op = "add_benchmark_id" =>
        /\ \A id \in IndexIds(last.pre_groups) :
               /\ GetBenchmark(groups, id) # None
               /\ GetBenchmark(groups, id)[1].latest_stats
                      = GetBenchmark(last.pre_groups, id)[1].latest_stats
               /\ GetBenchmark(groups, id)[1].previous_stats
                      = GetBenchmark(last.pre_groups, id)[1].previous_stats
        /\ GetLastSample(groups, last.id[1]) = GetLastSample(last.pre_groups, last.id[1])
        /\ (EntryBefore # None /\ EntryBefore[1].target = None) => last.warnings = 0

\* C16 witness: an identity that was only loaded from disk, with its
\* statistics, was registered.
C16_Witness ==
    /\ last.op = "add_benchmark_id"
    /\ EntryBefore # None
    /\ EntryBefore[1].target = None
    /\ EntryBefore[1].latest_stats # None
    /\ GetLastSample(groups, last.id[1]) = EntryBefore[1].latest_stats

\* C17 as claimed: while every benchmark_complete call of the run has
\* succeeded, any load of the data directory yields, for every identity
\* completed in the run, the latest_stats the running Model holds.
C17_MemoryMatchesDisk ==
    (alive /\ ~recent.failed) =>
        \A grps \in LoadOutcomes(disk) :
            \A saved \in recent.completed :
                GetLastSample(grps, FromSavedBenchmarkId(saved))
                    = GetLastSample(groups, FromSavedBenchmarkId(saved))

\* C19: a benchmark_complete call that returns an error leaves groups,
\* with every entry's latest_stats, previous_stats and target, all_titles
\* and all_directories as they were.
C19_FailedWriteKeepsMemory ==
    [][(last'.op = "benchmark_complete" /\ last'.ending = "error") =>
           /\ groups' = groups
           /\ all_titles' = all_titles
           /\ all_directories' = all_directories
           /\ \A id \in registered :
                  GetLastSample(groups', id) = GetLastSample(groups, id)]_vars

\* C19 witness: a call failed at the write of the record file, for an
\* identity whose entry holds statistics.
C19_Witness ==
    /\ LastComplete
    /\ last.ending = "error"
    /\ last.steps = 4
    /\ GetLastSample(groups, last.id[1]) # None
    /\ GetLastSample(groups, last.id[1]) # last.saved_stats

(***************************************************************************)
(* compile: the child processes at return                                  *)
(***************************************************************************)
\* C20 as claimed: when compile returns, every child it spawned has been
\* waited for and has exited.
C20_ReapsChildren ==
    Returned => (cargo # "running" /\ rerun # "running")

=============================================================================
